---- MODULE Spec2Model ----
(***************************************************************************)
(* Broadlink-CLI-SmartIR: the learning pass of the four device types       *)
(* (climate.py, fan.py, light.py, media.py), the way main.py drives it,    *)
(* and one capture attempt of helpers.async_learn.                         *)
(*                                                                         *)
(* Spec      : one run of main -- scaffold the matrix, learn every slot,   *)
(*             hand the result to saveConfig.  A call of async_learn is    *)
(*             one step with the results the function can produce.         *)
(* SpecLearn : one call of async_learn, adapter operation by adapter       *)
(*             operation, with the clock the sleeps advance.               *)
(***************************************************************************)
EXTENDS Integers, Sequences, FiniteSets, TLC

(***************************************************************************)
(* Bounds of the model.                                                    *)
(***************************************************************************)
\* Capture attempts explored for one slot: the operator answers retry or
\* re-learn only while the slot has had fewer attempts than this.
MaxAttempts == 3
\* Slots of one pass in which something other than "the first capture
\* succeeds and is accepted" is explored (a failed capture, a re-learn, a skip).
MaxDirtySlots == 1
\* Highest temperature answered to the climate prompts in SpecConstruct.
MaxTemp == 4
\* Longest captured byte string whose encoding is explored.
MaxDataLen == 4
\* Calls of async_learn followed step by step for one slot in SpecRelearn.
MaxCalls == 2

(***************************************************************************)
(* Python values.                                                          *)
(***************************************************************************)
\* None: the value async_learn returns on failure, and the fan's sentinel.
None == "None"
\* '': the empty sentinel of climate, light and media.
EmptyStr == ""
\* A dict node of the commands tree (an interior node), as opposed to a leaf.
Dict == "{}"
\* The local `command` of a frame before async_learn has returned.
Unbound == "?"

\* The payload captured by attempt number `attempt` of slot number `slotNo`:
\* payloads are opaque strings, told apart by the attempt that produced them.
Payload(slotNo, attempt) == ToString(slotNo) \o ":" \o ToString(attempt)

\* str.lower() on the answers the operator types.
Lower(s) == CASE s = "N" -> "n" [] s = "S" -> "s" [] s = "Y" -> "y" [] OTHER -> s

\* What the operator may type at a prompt (Enter alone is the empty string).
Answers == {"", "n", "N", "s", "S", "y", "Y"}

(***************************************************************************)
(* The enumerations of the device modules.                                 *)
(***************************************************************************)
DeviceType == {"CLIMATE", "MEDIA", "FAN", "LIGHT"}

ClimateOperationModes == <<"off", "cool", "heat", "heat_cool", "fan_only", "dry">>

ClimateFanModes ==
    <<"auto", "level1", "level2", "level3", "level4", "level5", "level6",
      "level7", "level8", "level9", "level10">>

FanSpeedModes == <<"level1", "level2", "level3", "level4", "level5", "level6">>

FanTimerModes == <<"timer_1h", "timer_2h", "timer_4h", "timer_8h">>

LightOperationModes == <<"off", "on", "brighten", "dim">>

LightColorModes == <<"white", "blue", "yellow">>

MediaCommands ==
    <<"off", "on", "previousChannel", "nextChannel", "volumeUp", "volumeDown", "mute">>

(***************************************************************************)
(* Sequence helpers.                                                       *)
(***************************************************************************)
Range(s) == {s[i] : i \in DOMAIN s}

IsPrefix(p, q) == Len(p) <= Len(q) /\ SubSeq(q, 1, Len(p)) = p

\* The non-OFF operation modes, in enumeration order.
NonOffOperationModes == SelectSeq(ClimateOperationModes, LAMBDA m : m # "off")

(***************************************************************************)
(* Climate temperatures.  Temperatures are kept in half degrees, so that   *)
(* precision 1.0 is 2 and precision 0.5 is 1.                              *)
(***************************************************************************)
\* int(x) of Python: truncation toward zero.
TruncDiv(a, b) == IF a >= 0 THEN a \div b ELSE -((-a) \div b)

\* Mutant of Temps: range(int((tempMax - tempMin) / precision)), without + 1.
TempsWithoutLast(tMin, tMax, prec) ==
    LET n == TruncDiv(2 * (tMax - tMin), prec)
    IN  [i \in 1..(IF n > 0 THEN n ELSE 0) |-> 2 * tMin + prec * (i - 1)]

\* self.temps, in half degrees: tempMin + precision * i for i in
\* range(int((tempMax - tempMin) / precision) + 1).
Temps(tMin, tMax, prec) ==
    LET n == TruncDiv(2 * (tMax - tMin), prec) + 1
    IN  [i \in 1..(IF n > 0 THEN n ELSE 0) |-> 2 * tMin + prec * (i - 1)]

\* str(temp) after `int(x) if x.is_integer() else x`.
TempKey(h) == IF h % 2 = 0 THEN ToString(h \div 2) ELSE ToString(h \div 2) \o ".5"

(***************************************************************************)
(* The commands tree: a function from paths (sequences of keys) to Dict    *)
(* for a nested dict and to a string (or None) for a leaf.                 *)
(***************************************************************************)
\* d[k1]...[kn] = v of Python succeeds when every proper prefix is a dict;
\* otherwise it raises (KeyError for a missing key, TypeError for a str).
CanSetItem(c, path) ==
    \A n \in 1..(Len(path) - 1) :
        /\ SubSeq(path, 1, n) \in DOMAIN c
        /\ c[SubSeq(path, 1, n)] = Dict

\* The tree after d[k1]...[kn] = v: whatever was at the path, a subtree
\* included, is replaced by v.
SetItem(c, path, v) ==
    LET keep == {q \in DOMAIN c : ~IsPrefix(path, q)}
    IN  [q \in keep \cup {path} |-> IF q = path THEN v ELSE c[q]]

ClimateCommands(opModes, fModes, tmps) ==
    LET ops   == {<<o>> : o \in Range(opModes)}
        fans  == {<<o, f>> : o \in Range(opModes), f \in Range(fModes)}
        leafs == {<<o, f, TempKey(t)>> :
                     o \in Range(opModes), f \in Range(fModes), t \in Range(tmps)}
    IN  [p \in ops \cup fans \cup leafs |-> IF Len(p) = 3 THEN EmptyStr ELSE Dict]

FanCommands(fModes, tModes) ==
    [p \in {<<"off">>, <<"on">>, <<"reverse">>}
           \cup {<<f>> : f \in Range(fModes)}
           \cup {<<t>> : t \in Range(tModes)} |-> None]

LightCommands ==
    [p \in {<<m>> : m \in Range(LightOperationModes)}
           \cup {<<"colors">>}
           \cup {<<"colors", c>> : c \in Range(LightColorModes)}
       |-> IF p = <<"colors">> THEN Dict ELSE EmptyStr]

MediaBaseCommands(srcs) ==
    [p \in {<<"sources">>}
           \cup {<<m>> : m \in Range(MediaCommands)}
           \cup {<<"sources", s>> : s \in Range(srcs)}
       |-> IF p = <<"sources">> THEN Dict ELSE EmptyStr]

\* Mutant of CommandsEncoding: the scaffold of the fan names another
\* encoding.
CommandsEncodingByDevice(dt) == IF dt = "FAN" THEN "Hex" ELSE "Base64"

\* outputConfig['commandsEncoding'] = 'Base64', in the scaffold of every
\* device type.
CommandsEncoding(dt) == "Base64"

\* _buildBaseOutputConfig of the four device classes.
BuildBaseOutputConfig(dt, opModes, fModes, tmps, tModes, srcs) ==
    [supportedController |-> "Broadlink",
     commandsEncoding    |-> CommandsEncoding(dt),
     commands |-> CASE dt = "CLIMATE" -> ClimateCommands(opModes, fModes, tmps)
                    [] dt = "FAN"     -> FanCommands(fModes, tModes)
                    [] dt = "LIGHT"   -> LightCommands
                    [] dt = "MEDIA"   -> MediaBaseCommands(srcs)]

(***************************************************************************)
(* The slots learn() walks, in order.  `path` is where _learnCommand       *)
(* stores an accepted capture; `leaf` is the matrix leaf of the slot, as   *)
(* the loop variables of learn() name it.                                  *)
(***************************************************************************)
Slot(path, leaf) == [path |-> path, leaf |-> leaf]

\* ClimateDevice.learn: the off command, then every member of the two
\* enumerations (not the operator's selection) and every temperature, the
\* operation mode in the outer loop, the temperature in the inner one.
ClimateNumSlots(tmps) == 1 + Len(NonOffOperationModes) * Len(ClimateFanModes) * Len(tmps)

ClimateSlot(i, tmps) ==
    IF i = 1
    THEN Slot(<<"off">>, <<"off">>)
    ELSE LET j  == i - 2
             nT == Len(tmps)
             nF == Len(ClimateFanModes)
             o  == NonOffOperationModes[(j \div (nF * nT)) + 1]
             f  == ClimateFanModes[((j \div nT) % nF) + 1]
             t  == TempKey(tmps[(j % nT) + 1])
         IN  Slot(<<o, f, t>>, <<o, f, t>>)

\* FanDevice.learn: commands_to_learn, then self.fanModes, then self.timerModes.
FanSlotKeys(fModes, tModes) == <<"off", "on", "reverse">> \o fModes \o tModes

FanSlot(i, fModes, tModes) ==
    Slot(<<FanSlotKeys(fModes, tModes)[i]>>, <<FanSlotKeys(fModes, tModes)[i]>>)

\* LightDevice.learn: the operation modes, then _learnCommand('colors', color).
LightNumSlots == Len(LightOperationModes) + Len(LightColorModes)

LightSlot(i) ==
    IF i <= Len(LightOperationModes)
    THEN Slot(<<LightOperationModes[i]>>, <<LightOperationModes[i]>>)
    ELSE Slot(<<"colors", LightColorModes[i - Len(LightOperationModes)]>>,
              <<"colors", LightColorModes[i - Len(LightOperationModes)]>>)

\* MediaDevice.learn: the commands, then _learnCommand('sources') once for
\* every source.
MediaNumSlots(srcs) == Len(MediaCommands) + Len(srcs)

MediaSlot(i, srcs) ==
    IF i <= Len(MediaCommands)
    THEN Slot(<<MediaCommands[i]>>, <<MediaCommands[i]>>)
    ELSE Slot(<<"sources">>, <<"sources", srcs[i - Len(MediaCommands)]>>)

NumSlotsOf(dt, fModes, tmps, tModes, srcs) ==
    CASE dt = "CLIMATE" -> ClimateNumSlots(tmps)
      [] dt = "FAN"     -> Len(FanSlotKeys(fModes, tModes))
      [] dt = "LIGHT"   -> LightNumSlots
      [] dt = "MEDIA"   -> MediaNumSlots(srcs)

SlotOf(i, dt, fModes, tmps, tModes, srcs) ==
    CASE dt = "CLIMATE" -> ClimateSlot(i, tmps)
      [] dt = "FAN"     -> FanSlot(i, fModes, tModes)
      [] dt = "LIGHT"   -> LightSlot(i)
      [] dt = "MEDIA"   -> MediaSlot(i, srcs)

\* Climate, light and media return None from learn() at the first slot that
\* returns False; the fan ignores the slot's result.
Strict(dt) == dt # "FAN"

\* The empty sentinel of a device type's scaffold.
Sentinel(dt) == IF dt = "FAN" THEN None ELSE EmptyStr

(***************************************************************************)
(* The configurations explored: what the prompts of the device classes     *)
(* can return.                                                             *)
(***************************************************************************)
ClimateConfigs ==
    { [tempMin |-> 17, tempMax |-> 16, precision |-> 2,
       operationModes |-> NonOffOperationModes, fanModes |-> ClimateFanModes],
      [tempMin |-> 16, tempMax |-> 17, precision |-> 1,
       operationModes |-> <<"cool">>, fanModes |-> <<"auto">>],
      [tempMin |-> 16, tempMax |-> 17, precision |-> 2,
       operationModes |-> <<"heat", "cool">>, fanModes |-> <<"level1", "auto">>],
      [tempMin |-> 16, tempMax |-> 16, precision |-> 2,
       operationModes |-> <<>>, fanModes |-> <<>>] }

FanConfigs == { <<"timer_8h">>, <<"timer_1h", "timer_4h">> }

MediaConfigs == { <<"">>, <<"hdmi">>, <<"hdmi", "tv">> }

VARIABLES
    deviceType,      \* main: the selected device type
    is_rf,           \* main: the selected signal type
    tempMin, tempMax, precision, operationModes, fanModes,   \* climate prompts (fan: fanModes)
    timerModes,      \* fan prompt
    sources,         \* media prompt
    outputConfig,    \* self.outputConfig
    pc,              \* where the run is: "learn", "capture" (in async_learn), "failed"
                     \* and "confirm" (at a prompt), "slotdone" (back in learn()),
                     \* "returned" (back in main), "exit"; "raised" and "keyerror":
                     \* an exception nothing catches has ended the process
    slot,            \* number of the slot learn() is at (1-based), 0 before the first
    frames,          \* the `command` local of every live _learnCommand frame, outermost first
    choice,          \* the `choice` local: the last answer read, lower-cased
    result,          \* what the outermost _learnCommand returned to learn()
    command_count,   \* FanDevice.learn: the progress counter
    learnReturn,     \* what learn() returned to main
    saved,           \* the configs main handed to saveConfig
    outcomes,        \* observation: the outcome of every finished slot, in order
    writes,          \* observation: the paths assigned in the commands tree, in order
    attempts,        \* observation: calls of async_learn so far
    dirtySlots,      \* observation: slots so far with a failed capture, a re-learn or a skip
    slotDirty,       \* observation: the slot learn() is at is one of them
    \* One call of async_learn (SpecLearn).
    lpc,             \* where the call is
    now,             \* time.time(), in ticks of 10 ms
    entered,         \* observation: time.time() when the call was made
    start,           \* the local `start` of the polling loop under way
    last_check,      \* the local `last_check` of the RF poll loop
    frequency,       \* the parameter and local `frequency`
    argFrequency,    \* observation: the value `frequency` was called with
    deviceFrequency, \* device.frequency, None while the attribute is not set
    locked,          \* the local `locked` of the sweep loop
    ret,             \* how the call ended: status and returned value
    lockPolls,       \* observation: calls of check_frequency so far
    lastLockPoll,    \* observation: time of the last one, or of the sweep's start
    data,            \* the local `data`: what check_data returned last, <<>> for nothing
    lastPoll,        \* observation: how the last captured-data poll ended
    pollTimes,       \* observation: when the last two captured-data polls were made
    fullPolls,       \* observation: IR polls in a row that raised "storage is full", up to
                     \* the last poll or, once data has come, up to the poll before it
    ops              \* observation: the adapter operations the call has issued, in
                     \* order; of a polling loop the operations of its latest turn only

passVars ==
    <<deviceType, is_rf, tempMin, tempMax, precision, operationModes, fanModes,
      timerModes, sources, outputConfig, pc, slot, frames, choice, result, command_count,
      learnReturn, saved, outcomes, writes, attempts, dirtySlots, slotDirty>>

configVars ==
    <<deviceType, is_rf, tempMin, tempMax, precision, operationModes, fanModes,
      timerModes, sources>>

pollVars == <<data, lastPoll, pollTimes, fullPolls>>

learnVars ==
    <<lpc, now, entered, start, last_check, frequency, argFrequency, deviceFrequency,
      locked, ret, lockPolls, lastLockPoll, pollVars, ops>>

vars == <<passVars, learnVars>>

temps == Temps(tempMin, tempMax, precision)

NumSlots == NumSlotsOf(deviceType, fanModes, temps, timerModes, sources)

\* The slot with number i of this run.
SlotAt(i) == SlotOf(i, deviceType, fanModes, temps, timerModes, sources)

\* Exploration bound: the slot learn() is at may become, or is, a dirty one.
MayDeviate == slotDirty \/ dirtySlots < MaxDirtySlots

Deviate ==
    /\ slotDirty' = TRUE
    /\ dirtySlots' = IF slotDirty THEN dirtySlots ELSE dirtySlots + 1

\* The scaffold the constructor built for this run's configuration.
Scaffold ==
    BuildBaseOutputConfig(deviceType, operationModes, fanModes, temps, timerModes, sources)

(***************************************************************************)
(* main up to the call of learn(): the prompts are answered and the device *)
(* object is constructed, which scaffolds self.outputConfig.               *)
(***************************************************************************)
InitConfig ==
    /\ deviceType \in DeviceType
    /\ is_rf \in BOOLEAN
    /\ \E c \in ClimateConfigs :
          IF deviceType = "CLIMATE"
          THEN /\ tempMin = c.tempMin /\ tempMax = c.tempMax /\ precision = c.precision
               /\ operationModes = c.operationModes /\ fanModes = c.fanModes
          ELSE /\ tempMin = 0 /\ tempMax = 0 /\ precision = 2
               /\ operationModes = <<>>
               /\ fanModes = IF deviceType = "FAN" THEN FanSpeedModes ELSE <<>>
    /\ \E t \in FanConfigs : timerModes = IF deviceType = "FAN" THEN t ELSE <<>>
    /\ \E s \in MediaConfigs : sources = IF deviceType = "MEDIA" THEN s ELSE <<>>

\* No call of async_learn is followed step by step.
LearnIdle ==
    /\ lpc = "idle"
    /\ now = 0 /\ entered = 0 /\ start = 0 /\ last_check = 0
    /\ frequency = None /\ argFrequency = None /\ deviceFrequency = None
    /\ locked = FALSE
    /\ ret = [status |-> "running", value |-> <<>>]
    /\ lockPolls = 0 /\ lastLockPoll = 0
    /\ data = <<>> /\ lastPoll = "none" /\ pollTimes = <<0, 0>> /\ fullPolls = 0
    /\ ops = <<>>

Init ==
    /\ LearnIdle
    /\ InitConfig
    /\ outputConfig = Scaffold
    /\ pc = "learn"
    /\ slot = 0
    /\ frames = <<>>
    /\ choice = Unbound
    /\ result = TRUE
    /\ command_count = 0
    /\ learnReturn = "pending"
    /\ saved = <<>>
    /\ outcomes = <<>>
    /\ writes = <<>>
    /\ attempts = 0
    /\ dirtySlots = 0
    /\ slotDirty = FALSE

(***************************************************************************)
(* ClimateDevice.__init__: the prompts have been answered; the temperature *)
(* steps are computed and the matrix is scaffolded.                        *)
(***************************************************************************)
\* What the checkbox prompts of the climate device return, in the runs
\* explored.
OperationModeSelections == {<<>>, <<"cool">>, <<"cool", "heat", "dry">>}

FanModeSelections == {<<>>, <<"auto">>, <<"auto", "level1">>}

\* self.outputConfig before _buildBaseOutputConfig has run.
NoConfig == [supportedController |-> None, commandsEncoding |-> None, commands |-> <<>>]

InitConstruct ==
    /\ LearnIdle
    /\ deviceType = "CLIMATE"
    /\ is_rf \in BOOLEAN
    /\ tempMin \in 0..MaxTemp
    /\ tempMax \in 0..MaxTemp
    /\ precision \in {1, 2}
    /\ operationModes \in OperationModeSelections
    /\ fanModes \in FanModeSelections
    /\ timerModes = <<>>
    /\ sources = <<>>
    /\ outputConfig = NoConfig
    /\ pc = "construct"
    /\ slot = 0
    /\ frames = <<>>
    /\ choice = Unbound
    /\ result = TRUE
    /\ command_count = 0
    /\ learnReturn = "pending"
    /\ saved = <<>>
    /\ outcomes = <<>>
    /\ writes = <<>>
    /\ attempts = 0
    /\ dirtySlots = 0
    /\ slotDirty = FALSE

\* self.temps and self.outputConfig are set.
Construct ==
    /\ pc = "construct"
    /\ outputConfig' = Scaffold
    /\ pc' = "learn"
    /\ UNCHANGED <<configVars, slot, frames, choice, result, command_count, learnReturn,
                   saved, outcomes, writes, attempts, dirtySlots, slotDirty>>
    /\ UNCHANGED learnVars

SpecConstruct == InitConstruct /\ [][Construct]_vars

(***************************************************************************)
(* learn(): the loop over the slots.                                       *)
(***************************************************************************)
\* learn() goes on to the next slot: it prints the prompt and calls
\* _learnCommand, which runs up to its call of async_learn; after the last
\* slot it returns self.outputConfig.
NextSlot ==
    IF slot < NumSlots
    THEN /\ slot' = slot + 1
         /\ frames' = <<Unbound>>
         /\ slotDirty' = FALSE
         /\ pc' = "capture"
         /\ UNCHANGED learnReturn
    ELSE /\ pc' = "returned"
         /\ learnReturn' = "outputConfig"
         /\ UNCHANGED <<slot, frames, slotDirty>>

\* learn() is entered.
StartLearn ==
    /\ pc = "learn"
    /\ command_count' = IF deviceType = "FAN" THEN 1 ELSE command_count
    /\ NextSlot
    /\ UNCHANGED <<configVars, outputConfig, choice, result, saved, outcomes, writes,
                   attempts, dirtySlots>>
    /\ UNCHANGED learnVars

\* Mutants of AbortsPass: no device type stops at a False slot; every device
\* type does.
AbortsPassNever(dt, res) == FALSE

AbortsPassAlways(dt, res) == ~res

\* What learn() does with the value _learnCommand returned.
AbortsPass(dt, res) == Strict(dt) /\ ~res

\* Mutant of CountAfterSlot: the counter grows after a slot that returned
\* True only.
CountAfterSuccess(n, res) == IF res THEN n + 1 ELSE n

\* FanDevice.learn: `command_count += 1`, whatever _learnCommand returned.
CountAfterSlot(n, res) == n + 1

\* FanDevice.learn: total_commands, the total shown with every slot.
TotalCommands == 3 + Len(fanModes) + Len(timerModes)

\* _learnCommand has returned to learn().
LearnLoop ==
    /\ pc = "slotdone"
    /\ IF AbortsPass(deviceType, result)
       THEN /\ pc' = "returned"
            /\ learnReturn' = None
            /\ UNCHANGED <<slot, frames, command_count, slotDirty>>
       ELSE /\ command_count' = IF deviceType = "FAN"
                                THEN CountAfterSlot(command_count, result)
                                ELSE command_count
            /\ NextSlot
    /\ UNCHANGED <<configVars, outputConfig, choice, result, saved, outcomes, writes,
                   attempts, dirtySlots>>
    /\ UNCHANGED learnVars

(***************************************************************************)
(* _learnCommand / _learnOffCommand: one frame per capture attempt.        *)
(***************************************************************************)
\* The results async_learn can hand to its caller: a payload, None, or (IR
\* mode only, where enter_learning and part of the poll errors are not
\* caught) an exception.
LearnResults(rf) == IF rf THEN {"payload", "None"} ELSE {"payload", "None", "raise"}

\* The call of async_learn in the innermost frame.
AsyncLearnCall ==
    /\ pc = "capture"
    /\ \E r \in LearnResults(is_rf) :
          CASE r = "payload" ->
                 /\ frames' = [frames EXCEPT ![Len(frames)] = Payload(slot, Len(frames))]
                 /\ pc' = "confirm"
                 /\ UNCHANGED <<dirtySlots, slotDirty>>
            [] r = "None" ->
                 /\ MayDeviate
                 /\ Deviate
                 /\ frames' = [frames EXCEPT ![Len(frames)] = None]
                 /\ pc' = "failed"
            [] r = "raise" ->
                 /\ pc' = "raised"
                 /\ UNCHANGED <<frames, dirtySlots, slotDirty>>
    /\ attempts' = attempts + 1
    /\ UNCHANGED <<configVars, outputConfig, slot, choice, result, command_count,
                   learnReturn, saved, outcomes, writes>>
    /\ UNCHANGED learnVars

\* Every frame returns the value of the innermost one: the slot is over.
SlotReturns(res, outcome) ==
    /\ frames' = <<>>
    /\ result' = res
    /\ outcomes' = Append(outcomes, outcome)
    /\ pc' = "slotdone"

\* The recursive call `return self._learnCommand(...)`: a new frame, which
\* runs up to its call of async_learn.
Recurse ==
    /\ Len(frames) < MaxAttempts
    /\ frames' = Append(frames, Unbound)
    /\ pc' = "capture"
    /\ UNCHANGED <<result, outcomes>>

\* Mutant of RetryChoice: the retry prompt tries again whatever the answer.
RetryChoiceAlways(c) == "retry"

\* The branch of the retry prompt: 'n' gives up, anything else tries again.
RetryChoice(c) == IF c # "n" THEN "retry" ELSE "abort"

\* "Learning failed or timed out. Try again? (Y/n)"
RetryPrompt ==
    /\ pc = "failed"
    /\ \E answer \in Answers :
          /\ choice' = Lower(answer)
          /\ IF RetryChoice(choice') = "retry"
             THEN Recurse
             ELSE SlotReturns(FALSE, "Aborted")
    /\ UNCHANGED <<configVars, outputConfig, slot, command_count, learnReturn, saved,
                   writes, attempts, dirtySlots, slotDirty>>
    /\ UNCHANGED learnVars

\* The branch of the confirm prompt: 's' skips, 'n' re-learns, anything else
\* accepts.
ConfirmChoice(c) ==
    IF c = "s" THEN "skip" ELSE IF c = "n" THEN "relearn" ELSE "accept"

\* Mutant of SavedCommand: the local of the outermost frame, that is the
\* result of the slot's first attempt.
SavedCommandOutermost(fr) == fr[1]

\* The command the accept branch stores: the local of the frame that asked.
SavedCommand(fr) == fr[Len(fr)]

\* "Press Enter to confirm, N to re-learn, or S to skip this command"
ConfirmPrompt ==
    /\ pc = "confirm"
    /\ \E answer \in Answers :
        /\ choice' = Lower(answer)
        /\ CASE ConfirmChoice(choice') = "skip" ->
                 /\ MayDeviate
                 /\ Deviate
                 /\ SlotReturns(TRUE, "Skipped")
                 /\ UNCHANGED <<outputConfig, writes>>
            [] ConfirmChoice(choice') = "relearn" ->
                 /\ MayDeviate
                 /\ Deviate
                 /\ Recurse
                 /\ UNCHANGED <<outputConfig, writes>>
            [] ConfirmChoice(choice') = "accept" ->
                 IF CanSetItem(outputConfig.commands, SlotAt(slot).path)
                 THEN /\ outputConfig' =
                             [outputConfig EXCEPT !.commands =
                                 SetItem(@, SlotAt(slot).path, SavedCommand(frames))]
                      /\ writes' = Append(writes, SlotAt(slot).path)
                      /\ SlotReturns(TRUE, "Saved")
                      /\ UNCHANGED <<dirtySlots, slotDirty>>
                 ELSE \* KeyError: nothing catches it
                      /\ pc' = "keyerror"
                      /\ UNCHANGED <<outputConfig, writes, frames, result, outcomes,
                                     dirtySlots, slotDirty>>
    /\ UNCHANGED <<configVars, slot, command_count, learnReturn, saved, attempts>>
    /\ UNCHANGED learnVars

(***************************************************************************)
(* main after learn(): `if outputConfig: saveConfig(...)`.                 *)
(***************************************************************************)
\* Truthiness of what learn() returned: None is false, the dict (which
\* always has keys) is true.
Truthy(v) == v # None

MainSave ==
    /\ pc = "returned"
    /\ saved' = IF Truthy(learnReturn) THEN Append(saved, outputConfig) ELSE saved
    /\ pc' = "exit"
    /\ UNCHANGED <<configVars, outputConfig, slot, frames, choice, result, command_count,
                   learnReturn, outcomes, writes, attempts, dirtySlots, slotDirty>>
    /\ UNCHANGED learnVars

(***************************************************************************)
(* helpers.async_learn, one call, adapter operation by adapter operation.  *)
(* Time is counted in ticks of 10 ms; an adapter round trip takes no time, *)
(* time passes in time.sleep only.                                         *)
(***************************************************************************)
\* 20 s: the limit of the three polling loops.
Timeout == 2000
\* time.sleep(1)
OneSecond == 100
\* time.sleep(2) after a lock
Settle == 200
\* 0.1 s between two polls of the RF loop
PollInterval == 10
\* time.sleep(0.01) of the RF loop
SpinSleep == 1

\* time.time() at the call: any time of day, here 1000 s after the epoch.
CallTime == 1000 * OneSecond

\* Text is a sequence of one-character strings.
HexDigits ==
    <<"0", "1", "2", "3", "4", "5", "6", "7", "8", "9", "a", "b", "c", "d", "e", "f">>

\* format(x, '02x')
Format02x(x) == <<HexDigits[(x \div 16) + 1], HexDigits[(x % 16) + 1]>>

\* ''.join(format(x, '02x') for x in data)
RECURSIVE HexEncode(_)
HexEncode(bytes) ==
    IF bytes = <<>> THEN <<>> ELSE Format02x(Head(bytes)) \o HexEncode(Tail(bytes))

HexValue(c) == (CHOOSE i \in 1..16 : HexDigits[i] = c) - 1

\* codecs.getdecoder("hex_codec")(text)[0]
RECURSIVE HexDecode(_)
HexDecode(text) ==
    IF text = <<>> THEN <<>>
    ELSE <<16 * HexValue(text[1]) + HexValue(text[2])>> \o HexDecode(Tail(Tail(text)))

Base64Alphabet ==
    <<"A", "B", "C", "D", "E", "F", "G", "H", "I", "J", "K", "L", "M", "N", "O", "P",
      "Q", "R", "S", "T", "U", "V", "W", "X", "Y", "Z", "a", "b", "c", "d", "e", "f",
      "g", "h", "i", "j", "k", "l", "m", "n", "o", "p", "q", "r", "s", "t", "u", "v",
      "w", "x", "y", "z", "0", "1", "2", "3", "4", "5", "6", "7", "8", "9", "+", "/">>

B64(n) == Base64Alphabet[n + 1]

\* base64.b64encode(data).decode('utf-8')
RECURSIVE Base64Encode(_)
Base64Encode(bytes) ==
    CASE Len(bytes) = 0 -> <<>>
      [] Len(bytes) = 1 ->
           <<B64(bytes[1] \div 4), B64((bytes[1] % 4) * 16), "=", "=">>
      [] Len(bytes) = 2 ->
           <<B64(bytes[1] \div 4), B64((bytes[1] % 4) * 16 + bytes[2] \div 16),
             B64((bytes[2] % 16) * 4), "=">>
      [] OTHER ->
           <<B64(bytes[1] \div 4), B64((bytes[1] % 4) * 16 + bytes[2] \div 16),
             B64((bytes[2] % 16) * 4 + bytes[3] \div 64), B64(bytes[3] % 64)>>
           \o Base64Encode(SubSeq(bytes, 4, Len(bytes)))

\* Mutant of RfPayload: the RF branch encodes like the IR branch.
RfPayloadBase64(bytes) == Base64Encode(bytes)

\* What the RF branch returns for captured data.
RfPayload(bytes) == HexEncode(bytes)

\* What the IR branch returns for captured data.
IrPayload(bytes) == Base64Encode(HexDecode(HexEncode(bytes)))

\* None, as a returned text.
NoneText == <<"None">>

\* The byte strings check_data hands back in the runs explored.
CapturedData == {<<38, 0>>, <<255, 10, 171>>, <<0, 16, 131, 16, 81, 135, 32>>}

\* The frequencies the operator may have supplied (main: float(freq)), None
\* when device.frequency was never set; and those a sweep may detect.
SuppliedFrequencies == {None, "0.0", "433.92", "315.0"}

DetectedFrequencies == {"433.92", "315.0"}

\* `if frequency:` -- None and 0.0 are false.
FrequencyGiven(f) == f # None /\ f # "0.0"

\* Mutant of LoopRuns: the loop is still entered at the deadline itself.
LoopRunsLate(t, s) == t - s <= Timeout

\* `while time.time() - start < 20`
LoopRuns(t, s) == t - s < Timeout

Return(v) ==
    /\ lpc' = "done"
    /\ ret' = [status |-> "returned", value |-> v]

\* An exception leaves async_learn.
Raise ==
    /\ lpc' = "done"
    /\ ret' = [status |-> "raised", value |-> <<>>]

\* An adapter operation: the method called on the device, its argument
\* (None for a method without one) and whether it returned (ok) or raised.
Op(name, arg, ok) == [op |-> name, arg |-> arg, ok |-> ok]

\* The call issues the operations of `issued`, one after the other.
Issue(issued) == ops' = ops \o issued

\* A turn of the polling loop that `opening` precedes issues the
\* operations of `issued`.
IssueTurn(opening, issued) ==
    LET k == CHOOSE i \in 1..Len(ops) : ops[i].op = opening
    IN  ops' = SubSeq(ops, 1, k) \o issued

\* The pass at the call: _learnCommand of a light device, first slot.
LearnCallSite ==
    /\ deviceType = "LIGHT"
    /\ tempMin = 0 /\ tempMax = 0 /\ precision = 2
    /\ operationModes = <<>> /\ fanModes = <<>> /\ timerModes = <<>> /\ sources = <<>>
    /\ outputConfig = Scaffold
    /\ pc = "capture"
    /\ slot = 1
    /\ frames = <<Unbound>>
    /\ choice = Unbound
    /\ result = TRUE
    /\ command_count = 0
    /\ learnReturn = "pending"
    /\ saved = <<>>
    /\ outcomes = <<>>
    /\ writes = <<>>
    /\ attempts = 0
    /\ dirtySlots = 0
    /\ slotDirty = FALSE

\* The call, as _learnCommand makes it.
InitLearn ==
    /\ LearnCallSite
    /\ is_rf \in BOOLEAN
    /\ lpc = IF is_rf THEN "rf_auth" ELSE "ir_auth"
    /\ now = CallTime
    /\ entered = now
    /\ start = 0
    /\ last_check = 0
    /\ argFrequency \in (IF is_rf THEN SuppliedFrequencies ELSE {None})
    /\ frequency = argFrequency
    /\ deviceFrequency = argFrequency
    /\ locked = FALSE
    /\ ret = [status |-> "running", value |-> <<>>]
    /\ lockPolls = 0
    /\ lastLockPoll = 0
    /\ data = <<>>
    /\ lastPoll = "none"
    /\ pollTimes = <<0, 0>>
    /\ fullPolls = 0
    /\ ops = <<>>

\* RF: device.auth()
RfAuth ==
    /\ lpc = "rf_auth"
    /\ \E r \in {"ok", "raise"} :
          /\ Issue(<<Op("auth", None, r = "ok")>>)
          /\ IF r = "ok"
             THEN lpc' = "rf_cancel" /\ UNCHANGED ret
             ELSE Return(NoneText)
    /\ UNCHANGED pollVars
    /\ UNCHANGED <<passVars, now, entered, start, last_check, frequency, argFrequency,
                   deviceFrequency, locked, lockPolls, lastLockPoll>>

\* Mutant of CancelContinues: a cancel that raised ends the call.
CancelFailureReturns(r) == r = "ok"

\* `except Exception` of the cancel: "Don't return here, try to continue".
CancelContinues(r) == TRUE

\* RF: cancel_rf_sweep(), cancel_sweep_frequency(), sleep(1); an exception
\* skips what is left of the three.  Then `if frequency:` / `if not frequency:`.
RfCancel ==
    /\ lpc = "rf_cancel"
    /\ \E r \in {"ok", "raise"} :
          /\ Issue(<<Op("cancel", None, r = "ok")>>)
          /\ now' = IF r = "ok" THEN now + OneSecond ELSE now
          /\ IF CancelContinues(r)
             THEN /\ IF FrequencyGiven(frequency)
                     THEN deviceFrequency' = frequency /\ lpc' = "rf_start"
                     ELSE UNCHANGED deviceFrequency /\ lpc' = "sweep_start"
                  /\ UNCHANGED ret
             ELSE /\ Return(NoneText)
                  /\ UNCHANGED deviceFrequency
    /\ UNCHANGED pollVars
    /\ UNCHANGED <<passVars, entered, start, last_check, frequency, argFrequency,
                   locked, lockPolls, lastLockPoll>>

\* RF: device.sweep_frequency(); start = time.time()
SweepStart ==
    /\ lpc = "sweep_start"
    /\ \E r \in {"ok", "raise"} :
          /\ Issue(<<Op("sweep_frequency", None, r = "ok")>>)
          /\ IF r = "ok"
             THEN /\ start' = now
                  /\ lastLockPoll' = now
                  /\ lpc' = "sweeping"
                  /\ UNCHANGED ret
             ELSE /\ Return(NoneText)
                  /\ UNCHANGED <<start, lastLockPoll>>
    /\ UNCHANGED pollVars
    /\ UNCHANGED <<passVars, now, entered, last_check, frequency, argFrequency,
                   deviceFrequency, locked, lockPolls>>

\* Mutant of DeviceFrequencyOnLock: the detected frequency is kept on the
\* device.
DeviceFrequencyStored(dev, detected) == detected

\* `frequency = detected_freq` assigns the local: device.frequency is as
\* before.
DeviceFrequencyOnLock(dev, detected) == dev

\* Mutant of AfterLock: no `break`, the sweep loop goes on after a lock.
AfterLockSweepOn == "sweeping"

\* `if locked: ... break`: where the call goes on after a lock.
AfterLock == "rf_start"

\* RF: one turn of the sweep loop -- sleep(1), check_frequency() -- or the
\* loop's else branch once the 20 s are over.  A lock leaves the loop and
\* sleeps 2 s.
SweepPoll ==
    /\ lpc = "sweeping"
    /\ IF LoopRuns(now, start)
       THEN /\ lockPolls' = lockPolls + 1
            /\ lastLockPoll' = now + OneSecond
            /\ \E r \in {"unlocked", "raise"} \cup DetectedFrequencies :
                /\ IssueTurn("sweep_frequency", <<Op("check_frequency", None, r # "raise")>>)
                /\ CASE r = "unlocked" ->
                         /\ locked' = FALSE
                         /\ now' = now + OneSecond
                         /\ UNCHANGED <<lpc, ret, frequency, deviceFrequency>>
                    [] r = "raise" ->
                         /\ now' = now + OneSecond
                         /\ Return(NoneText)
                         /\ UNCHANGED <<locked, frequency, deviceFrequency>>
                    [] OTHER ->
                         /\ locked' = TRUE
                         /\ frequency' = r
                         /\ deviceFrequency' = DeviceFrequencyOnLock(deviceFrequency, r)
                         /\ now' = now + OneSecond + Settle
                         /\ lpc' = AfterLock
                         /\ UNCHANGED ret
       ELSE /\ Return(NoneText)
            /\ UNCHANGED <<now, locked, frequency, deviceFrequency, lockPolls,
                           lastLockPoll, ops>>
    /\ UNCHANGED pollVars
    /\ UNCHANGED <<passVars, entered, start, last_check, argFrequency>>

\* RF: device.auth(); device.find_rf_packet(frequency); start = time.time();
\* last_check = 0
RfStart ==
    /\ lpc = "rf_start"
    /\ \E r \in {"ok", "auth raises", "find_rf_packet raises"} :
          /\ Issue(IF r = "auth raises"
                   THEN <<Op("auth", None, FALSE)>>
                   ELSE <<Op("auth", None, TRUE),
                          Op("find_rf_packet", frequency, r = "ok")>>)
          /\ IF r = "ok"
             THEN /\ start' = now
                  /\ last_check' = 0
                  /\ lpc' = "rf_poll"
                  /\ UNCHANGED ret
             ELSE /\ Return(NoneText)
                  /\ UNCHANGED <<start, last_check>>
    /\ UNCHANGED pollVars
    /\ UNCHANGED <<passVars, now, entered, frequency, argFrequency, deviceFrequency,
                   locked, lockPolls, lastLockPoll>>

\* Mutant of PollDue: every turn of the loop polls.
PollDueAlways(t, last) == TRUE

\* `if current_time - last_check >= 0.1`
PollDue(t, last) == t - last >= PollInterval

\* Mutant of RfCatches: the RF loop catches what the IR loop catches.
RfCatchesReadErrors(e) == e \in {"storage is full", "ReadError"}

\* `except Exception` of the RF poll loop.
RfCatches(e) == TRUE

\* A captured-data poll is made at time t.
Polled(outcome, t) ==
    /\ lastPoll' = outcome
    /\ pollTimes' = <<pollTimes[2], t>>

\* The operations of a turn of the RF poll loop.
RfTurn(outcome) ==
    IssueTurn("find_rf_packet",
              IF outcome = "auth raises"
              THEN <<Op("auth", None, FALSE)>>
              ELSE <<Op("auth", None, TRUE),
                     Op("check_data", None, outcome \in {"data", "empty"})>>)

\* The operation of a turn of the IR poll loop.
IrTurn(outcome) ==
    IssueTurn("enter_learning", <<Op("check_data", None, outcome \in {"data", "empty"})>>)

\* RF: one turn of the poll loop, or its end once the 20 s are over.  A
\* poll is device.auth() and device.check_data(); an exception of either
\* is caught, and last_check is set unless data came back.
RfPoll ==
    /\ lpc = "rf_poll"
    /\ IF LoopRuns(now, start)
       THEN IF PollDue(now, last_check)
            THEN /\ \/ \E d \in CapturedData :
                          /\ data' = d
                          /\ Polled("data", now)
                          /\ RfTurn("data")
                          /\ Return(RfPayload(d))
                          /\ UNCHANGED last_check
                    \/ /\ data' = <<>>
                       /\ Polled("empty", now)
                       /\ RfTurn("empty")
                       /\ last_check' = now
                       /\ UNCHANGED <<lpc, ret>>
                    \/ \E e \in {"auth raises", "storage is full", "ReadError",
                                  "other error"} :
                          /\ Polled(e, now)
                          /\ RfTurn(e)
                          /\ UNCHANGED data
                          /\ IF RfCatches(e)
                             THEN last_check' = now /\ UNCHANGED <<lpc, ret>>
                             ELSE Raise /\ UNCHANGED last_check
                 /\ UNCHANGED now
            ELSE /\ now' = now + SpinSleep
                 /\ UNCHANGED <<lpc, ret, last_check, data, lastPoll, pollTimes, ops>>
       ELSE /\ Return(NoneText)
            /\ UNCHANGED <<now, last_check, data, lastPoll, pollTimes, ops>>
    /\ UNCHANGED <<passVars, entered, start, frequency, argFrequency, deviceFrequency,
                   locked, lockPolls, lastLockPoll, fullPolls>>

\* IR: device.auth()
IrAuth ==
    /\ lpc = "ir_auth"
    /\ \E r \in {"ok", "raise"} :
          /\ Issue(<<Op("auth", None, r = "ok")>>)
          /\ IF r = "ok"
             THEN lpc' = "ir_enter" /\ UNCHANGED ret
             ELSE Return(NoneText)
    /\ UNCHANGED pollVars
    /\ UNCHANGED <<passVars, now, entered, start, last_check, frequency, argFrequency,
                   deviceFrequency, locked, lockPolls, lastLockPoll>>

\* IR: device.enter_learning(), outside any try; start = time.time()
IrEnter ==
    /\ lpc = "ir_enter"
    /\ \E r \in {"ok", "raise"} :
          /\ Issue(<<Op("enter_learning", None, r = "ok")>>)
          /\ IF r = "ok"
             THEN /\ start' = now
                  /\ lpc' = "ir_poll"
                  /\ UNCHANGED ret
             ELSE /\ Raise
                  /\ UNCHANGED start
    /\ UNCHANGED pollVars
    /\ UNCHANGED <<passVars, now, entered, last_check, frequency, argFrequency,
                   deviceFrequency, locked, lockPolls, lastLockPoll>>

\* Mutant of IrCatches: StorageError is not caught.
IrCatchesReadError(e) == e = "ReadError"

\* `except (ReadError, StorageError)` of the IR poll loop.
IrCatches(e) == e \in {"storage is full", "ReadError"}

\* IR: one turn of the poll loop -- sleep(1), check_data() -- or the end of
\* the loop once the 20 s are over.  Only ReadError and StorageError are
\* caught.
IrPoll ==
    /\ lpc = "ir_poll"
    /\ IF LoopRuns(now, start)
       THEN /\ now' = now + OneSecond
            /\ \/ \E d \in CapturedData :
                     /\ data' = d
                     /\ Polled("data", now + OneSecond)
                     /\ IrTurn("data")
                     /\ UNCHANGED fullPolls
                     /\ Return(IrPayload(d))
               \/ /\ data' = <<>>
                  /\ Polled("empty", now + OneSecond)
                  /\ IrTurn("empty")
                  /\ fullPolls' = 0
                  /\ UNCHANGED <<lpc, ret>>
               \/ \E e \in {"storage is full", "ReadError", "other error"} :
                     /\ Polled(e, now + OneSecond)
                     /\ IrTurn(e)
                     /\ fullPolls' = IF e = "storage is full" THEN fullPolls + 1 ELSE 0
                     /\ UNCHANGED data
                     /\ IF IrCatches(e) THEN UNCHANGED <<lpc, ret>> ELSE Raise
       ELSE /\ Return(NoneText)
            /\ UNCHANGED <<now, data, lastPoll, pollTimes, fullPolls, ops>>
    /\ UNCHANGED <<passVars, entered, start, last_check, frequency, argFrequency,
                   deviceFrequency, locked, lockPolls, lastLockPoll>>

NextLearn ==
    \/ RfAuth
    \/ RfCancel
    \/ SweepStart
    \/ SweepPoll
    \/ RfStart
    \/ RfPoll
    \/ IrAuth
    \/ IrEnter
    \/ IrPoll

SpecLearn == InitLearn /\ [][NextLearn]_vars

(***************************************************************************)
(* The calls of async_learn for one slot: the call has returned None and   *)
(* the operator asks for another attempt, which _learnCommand makes in a   *)
(* new frame, reading device.frequency again.                              *)
(***************************************************************************)
\* `frequency = None; if hasattr(self.device, 'frequency'): frequency =
\* self.device.frequency`
CallFrequency(dev) == dev

\* `if command is None:` and the retry prompt answered with Enter: the
\* recursive call, up to its call of async_learn.  The clock is read from a
\* new origin.
LearnAgain ==
    /\ lpc = "done"
    /\ ret = [status |-> "returned", value |-> NoneText]
    /\ Len(frames) < MaxCalls
    /\ frames' = Append([frames EXCEPT ![Len(frames)] = None], Unbound)
    /\ choice' = EmptyStr
    /\ attempts' = attempts + 1
    /\ lpc' = IF is_rf THEN "rf_auth" ELSE "ir_auth"
    /\ now' = CallTime
    /\ entered' = now'
    /\ start' = 0
    /\ last_check' = 0
    /\ argFrequency' = CallFrequency(deviceFrequency)
    /\ frequency' = argFrequency'
    /\ locked' = FALSE
    /\ ret' = [status |-> "running", value |-> <<>>]
    /\ lockPolls' = 0
    /\ lastLockPoll' = 0
    /\ data' = <<>>
    /\ lastPoll' = "none"
    /\ pollTimes' = <<0, 0>>
    /\ fullPolls' = 0
    /\ ops' = <<>>
    /\ UNCHANGED <<configVars, outputConfig, pc, slot, result, command_count,
                   learnReturn, saved, outcomes, writes, dirtySlots, slotDirty,
                   deviceFrequency>>

NextRelearn ==
    \/ NextLearn
    \/ LearnAgain

SpecRelearn == InitLearn /\ [][NextRelearn]_vars

(***************************************************************************)
(* The return statements of async_learn for captured data, over byte       *)
(* strings of every length up to MaxDataLen.                               *)
(***************************************************************************)
\* Bytes the longer strings are made of: the extremes, 38 (the first byte
\* of a Broadlink IR packet) and 105 183 29, whose base64 text "abcd" reads
\* as hexadecimal.
SampleBytes == {0, 29, 38, 105, 183, 255}

RECURSIVE SeqsOfLen(_, _)
SeqsOfLen(S, n) ==
    IF n = 0 THEN {<<>>}
    ELSE {<<b>> \o t : b \in S, t \in SeqsOfLen(S, n - 1)}

\* The non-empty values of `data`: every single byte, and the strings of
\* sample bytes up to MaxDataLen.
ByteStrings ==
    {<<b>> : b \in 0..255} \cup UNION {SeqsOfLen(SampleBytes, n) : n \in 2..MaxDataLen}

\* check_data() has just returned `data`.
InitEncode ==
    /\ LearnCallSite
    /\ is_rf \in BOOLEAN
    /\ lpc = "encode"
    /\ now = CallTime
    /\ entered = now
    /\ start = now
    /\ last_check = 0
    /\ argFrequency = None
    /\ frequency = None
    /\ deviceFrequency = None
    /\ locked = FALSE
    /\ ret = [status |-> "running", value |-> <<>>]
    /\ lockPolls = 0
    /\ lastLockPoll = 0
    /\ data \in ByteStrings
    /\ lastPoll = "data"
    /\ pollTimes = <<0, now>>
    /\ fullPolls = 0
    /\ ops = <<>>

\* `if data: return ...` of the branch taken.
Encode ==
    /\ lpc = "encode"
    /\ Return(IF is_rf THEN RfPayload(data) ELSE IrPayload(data))
    /\ UNCHANGED <<passVars, now, entered, start, last_check, frequency, argFrequency,
                   deviceFrequency, locked, lockPolls, lastLockPoll, pollVars, ops>>

SpecEncode == InitEncode /\ [][Encode]_vars

Next ==
    \/ StartLearn
    \/ AsyncLearnCall
    \/ RetryPrompt
    \/ ConfirmPrompt
    \/ LearnLoop
    \/ MainSave

Spec == Init /\ [][Next]_vars

(***************************************************************************)
(* Properties of the learning pass.                                        *)
(***************************************************************************)
Last(s) == s[Len(s)]

\* The pass is over: learn() has returned, or an exception has ended it.
PassOver == pc \in {"returned", "exit", "raised", "keyerror"}

\* A slot has just ended with the given outcome.
SlotEnds(outcome) == outcomes' # outcomes /\ Last(outcomes') = outcome

\* The keys and nesting of a commands tree: its paths, and which are dicts.
Shape(c) == [p \in DOMAIN c |-> c[p] = Dict]

\* The leaves of a commands tree that hold the value v.
LeavesWith(c, v) == {p \in DOMAIN c : c[p] = v}

\* C1: in one pass no place of the matrix is written more than once, and
\* there are exactly as many writes as slots that ended Saved (retries,
\* skips, give-ups and failed captures write nothing).
C1_WrittenAtMostOnce ==
    /\ \A i, j \in DOMAIN writes : i # j => writes[i] # writes[j]
    /\ Len(writes) = Cardinality({i \in DOMAIN outcomes : outcomes[i] = "Saved"})

\* C2: from the first capture attempt until learn returns, the keys and
\* nesting of the commands tree are those of the scaffold.
C2_SchemaImmutable ==
    Shape(outputConfig.commands) = Shape(Scaffold.commands)

\* C3: a pass in which every capture succeeded and every capture was
\* accepted returns the matrix, and no leaf of it holds the empty sentinel.
C3_CleanPassFillsMatrix ==
    (PassOver /\ pc # "raised" /\ dirtySlots = 0)
        => /\ learnReturn = "outputConfig"
           /\ LeavesWith(outputConfig.commands, Sentinel(deviceType)) = {}

\* C4: when the pass is over, the leaf the scaffold holds for a skipped
\* slot still holds the empty sentinel, and the step that ends a slot
\* Skipped changes no leaf.
C4_SkippedInv ==
    PassOver =>
        \A i \in DOMAIN outcomes :
            (outcomes[i] = "Skipped" /\ SlotAt(i).leaf \in DOMAIN Scaffold.commands) =>
                /\ SlotAt(i).leaf \in DOMAIN outputConfig.commands
                /\ outputConfig.commands[SlotAt(i).leaf] = Sentinel(deviceType)

C4_SkippedStep == SlotEnds("Skipped") => outputConfig' = outputConfig

C4_SkippedLeafStaysEmpty == []C4_SkippedInv /\ [][C4_SkippedStep]_vars

\* C5: under the strict policy, once a slot has ended Aborted no further
\* slot is prompted and async_learn is not called again, learn returns None
\* and nothing is handed to saveConfig; whatever is handed to saveConfig
\* comes from a pass without an Aborted slot.
C5_StrictAbortInv ==
    Strict(deviceType) =>
        /\ "Aborted" \in Range(outcomes) =>
              /\ Last(outcomes) = "Aborted"
              /\ slot = Len(outcomes)
              /\ pc \in {"slotdone", "returned", "exit"}
              /\ pc # "slotdone" => learnReturn = None
              /\ saved = <<>>
        /\ saved # <<>> => "Aborted" \notin Range(outcomes)

C5_StrictAbortStep ==
    (Strict(deviceType) /\ "Aborted" \in Range(outcomes))
        => /\ attempts' = attempts
           /\ slot' = slot
           /\ outputConfig' = outputConfig

C5_StrictAbortEndsPass == []C5_StrictAbortInv /\ [][C5_StrictAbortStep]_vars

\* C5 witness: a strict device has exited after an Aborted slot, with slots
\* left unprompted and nothing saved.
C5_Witness ==
    /\ Strict(deviceType)
    /\ pc = "exit"
    /\ Len(outcomes) > 1
    /\ Last(outcomes) = "Aborted"
    /\ slot < NumSlots
    /\ saved = <<>>

\* C6: under the lenient policy (fan) the slot after an Aborted or Skipped
\* one is prompted like after any other, the leaf of an Aborted or Skipped
\* slot holds None, learn never returns None, and what main hands to
\* saveConfig is the matrix, after every slot has had its outcome.
C6_LenientInv ==
    deviceType = "FAN" =>
        /\ learnReturn # None
        /\ \A i \in DOMAIN outcomes :
              outcomes[i] \in {"Aborted", "Skipped"} =>
                  /\ SlotAt(i).leaf \in DOMAIN outputConfig.commands
                  /\ outputConfig.commands[SlotAt(i).leaf] = None
        /\ pc \in {"returned", "exit"} =>
              /\ learnReturn = "outputConfig"
              /\ Len(outcomes) = NumSlots
        /\ pc = "exit" => saved = <<outputConfig>>

C6_LenientStep ==
    (deviceType = "FAN" /\ pc = "slotdone") =>
        IF slot < NumSlots
        THEN slot' = slot + 1 /\ pc' = "capture" /\ attempts' = attempts
        ELSE pc' = "returned" /\ learnReturn' = "outputConfig"

C6_LenientPassCompletes == []C6_LenientInv /\ [][C6_LenientStep]_vars

\* C6 witness: a fan pass with an Aborted slot that was not the last one
\* has been saved.
C6_Witness ==
    /\ deviceType = "FAN"
    /\ pc = "exit"
    /\ \E i \in DOMAIN outcomes : i < NumSlots /\ outcomes[i] = "Aborted"
    /\ saved = <<outputConfig>>

\* C7: the transitions of the per-slot session.  After a failed capture the
\* answer 'n' ends the slot Aborted and any other answer starts a new
\* attempt; after a capture 's' ends the slot Skipped, 'n' starts a new
\* attempt and any other answer ends the slot Saved; a slot ends on no other
\* path.
C7_SessionStep ==
    /\ pc = "failed" =>
          IF choice' = "n"
          THEN pc' = "slotdone" /\ SlotEnds("Aborted")
          ELSE pc' = "capture" /\ Len(frames') = Len(frames) + 1 /\ outcomes' = outcomes
    /\ pc = "confirm" =>
          CASE choice' = "s" -> pc' = "slotdone" /\ SlotEnds("Skipped")
            [] choice' = "n" ->
                 pc' = "capture" /\ Len(frames') = Len(frames) + 1 /\ outcomes' = outcomes
            [] OTHER -> pc' = "slotdone" /\ SlotEnds("Saved")
    /\ outcomes' # outcomes => pc \in {"failed", "confirm"}
    /\ SlotEnds("Aborted") => pc = "failed"

C7_SessionTransitions == [][C7_SessionStep]_vars

\* C8: when a slot ends Saved, the value stored is the payload of the most
\* recent capture attempt of that slot.
C8_SavedStep ==
    SlotEnds("Saved") =>
        /\ SlotAt(slot).path \in DOMAIN outputConfig'.commands
        /\ outputConfig'.commands[SlotAt(slot).path] = Payload(slot, Len(frames))

C8_SavedIsLatestCapture == [][C8_SavedStep]_vars

\* C8 witness: a slot has ended Saved with the payload of its third attempt.
C8_Witness ==
    /\ pc = "slotdone"
    /\ Last(outcomes) = "Saved"
    /\ SlotAt(slot).path \in DOMAIN outputConfig.commands
    /\ outputConfig.commands[SlotAt(slot).path] = Payload(slot, 3)

(***************************************************************************)
(* Properties of one capture attempt.                                      *)
(***************************************************************************)
\* Time since the call.
Elapsed == now - entered

\* The longest a call can take: the poll loop alone in IR mode; the cancel's
\* sleep and the poll loop in RF mode with a frequency; the cancel's sleep,
\* the sweep loop, the settle sleep and the poll loop in RF mode without.
MaxDuration(rf, f) ==
    IF ~rf THEN Timeout
    ELSE IF FrequencyGiven(f) THEN OneSecond + Timeout
    ELSE OneSecond + Timeout + Settle + Timeout

\* C9: a call never lasts longer than 20 s, and a call that has ended has
\* returned a payload (Captured) or None (Failed).
C9_ReturnsWithin20s ==
    /\ Elapsed <= Timeout
    /\ lpc = "done" => ret.status = "returned"

\* What holds instead: a call never lasts longer than MaxDuration, no
\* polling loop runs longer than 20 s, and a call that has ended has
\* returned a payload or None or, in IR mode, has let an adapter exception
\* through.
AttemptBounded ==
    /\ Elapsed <= MaxDuration(is_rf, argFrequency)
    /\ lpc \in {"sweeping", "rf_poll", "ir_poll"} => now - start <= Timeout
    /\ lpc = "done" =>
          \/ ret.status = "returned"
          \/ ret.status = "raised" /\ ~is_rf

\* An RF call without a frequency has returned a payload after 42.9 s, the
\* last poll before the deadline of its poll loop.
LongestAttempt ==
    /\ lpc = "done"
    /\ is_rf /\ ~FrequencyGiven(argFrequency)
    /\ ret.status = "returned" /\ ret.value # NoneText
    /\ Elapsed = MaxDuration(is_rf, argFrequency) - PollInterval

\* C10: check_frequency is called at most 20 times in a call, each call at
\* least one second after the one before (the first: after the start of the
\* sweep), and a sweep that no poll answered with a lock makes the call
\* return None.
C10_LockPollInv ==
    /\ lockPolls * OneSecond <= Timeout
    /\ (lpc = "done" /\ lockPolls > 0 /\ ~locked) =>
           ret = [status |-> "returned", value |-> NoneText]
    /\ (lpc \in {"rf_start", "rf_poll"} /\ lockPolls > 0) => locked

C10_LockPollStep ==
    lockPolls' # lockPolls =>
        /\ lockPolls' = lockPolls + 1
        /\ lastLockPoll' - lastLockPoll >= OneSecond
        /\ lastLockPoll' <= now'

C10_LockPolls == []C10_LockPollInv /\ [][C10_LockPollStep]_vars

\* C10 witness: twenty polls without a lock, and the call has returned None.
C10_Witness ==
    /\ lpc = "done"
    /\ lockPolls * OneSecond = Timeout
    /\ ~locked
    /\ ret = [status |-> "returned", value |-> NoneText]

\* C11: in RF mode two captured-data polls in a row are at least 100 ms
\* apart; the poll that returns data ends the call in the same step, with
\* the hexadecimal text of that poll's data and without letting time pass;
\* and a call that has ended issues nothing more.
C11_RfPollInv ==
    is_rf =>
        /\ pollTimes[1] # 0 => pollTimes[2] - pollTimes[1] >= PollInterval
        /\ (lpc = "done" /\ lastPoll = "data") =>
              /\ data # <<>>
              /\ ret = [status |-> "returned", value |-> RfPayload(data)]
              /\ now = pollTimes[2]
        /\ lastPoll = "data" => lpc = "done"

C11_RfPollStep == lpc = "done" => UNCHANGED vars

C11_RfPollCadence == []C11_RfPollInv /\ [][C11_RfPollStep]_vars

\* C11 witness: an RF call has returned the data of its sixth poll, half a
\* second into the poll loop.
C11_Witness ==
    /\ is_rf
    /\ lpc = "done"
    /\ lastPoll = "data"
    /\ ret.value = RfPayload(data)
    /\ pollTimes[2] - pollTimes[1] = PollInterval
    /\ now - start = 5 * PollInterval

\* C12: in IR mode a poll that raises "storage is full" leaves the call in
\* its poll loop, whatever number of such polls came before; the call ends
\* after such a poll only by the deadline; and the poll that returns data
\* ends the call with the base64 text of that poll's data.
C12_StorageFullInv ==
    ~is_rf =>
        /\ (lastPoll = "storage is full" /\ lpc = "done") =>
              /\ ret = [status |-> "returned", value |-> NoneText]
              /\ ~LoopRuns(now, start)
        /\ (lpc = "done" /\ lastPoll = "data") =>
              /\ data # <<>>
              /\ ret = [status |-> "returned", value |-> IrPayload(data)]

C12_StorageFullStep ==
    (~is_rf /\ lpc = "ir_poll" /\ pollTimes' # pollTimes /\ lastPoll' = "storage is full")
        => lpc' = "ir_poll" /\ ret' = ret

C12_StorageFullIsTransient == []C12_StorageFullInv /\ [][C12_StorageFullStep]_vars

\* C12 witness: five IR polls in a row raised "storage is full", the sixth
\* returned data, and the call has returned the payload of that data.
C12_Witness ==
    /\ ~is_rf
    /\ lpc = "done"
    /\ lastPoll = "data"
    /\ fullPolls = 5
    /\ now - start = 6 * OneSecond
    /\ ret = [status |-> "returned", value |-> IrPayload(data)]

\* How a call that has ended ended, in the words of LearnResults.
LearnResult ==
    IF ret.status = "raised" THEN "raise"
    ELSE IF ret.value = NoneText THEN "None" ELSE "payload"

\* The calls followed step by step end in the ways the pass takes into
\* account, and in no other.
LearnResultsSound == lpc = "done" => LearnResult \in LearnResults(is_rf)

\* C13: a capture attempt ends Failed or Captured, whatever adapter
\* operation failed in it: from the call of async_learn the run goes to the
\* retry prompt or to the confirm prompt, never anywhere else.
C13_AdapterFailureStep == pc = "capture" => pc' \in {"failed", "confirm"}

C13_AdapterFailureAsksOperator == [][C13_AdapterFailureStep]_vars

\* C14: in IR mode a captured-data poll that raises an error, of whatever
\* kind, leaves the call in its poll loop; the loop is left only by a poll
\* that returns data or by the deadline.
C14_IrPollErrorStep ==
    (~is_rf /\ lpc = "ir_poll") =>
        \/ lpc' = "ir_poll"
        \/ lastPoll' = "data" /\ pollTimes' # pollTimes
        \/ ~LoopRuns(now, start)

C14_IrPollErrorsContinue == [][C14_IrPollErrorStep]_vars

\* C15: in RF mode an error raised in the poll loop, by the
\* re-authentication or by check_data, leaves the call in the loop: the
\* loop is left only by a poll that returns data or, returning None, at the
\* deadline, and the polls follow each other every 100 ms whatever their
\* outcome.
C15_RfPollErrorInv ==
    is_rf =>
        /\ (lpc \in {"rf_poll", "done"} /\ pollTimes[1] # 0) =>
              pollTimes[2] - pollTimes[1] = PollInterval
        /\ (lpc = "done" /\ lastPoll \notin {"none", "data"}) =>
              /\ ret = [status |-> "returned", value |-> NoneText]
              /\ now - start = Timeout

C15_RfPollErrorStep ==
    (is_rf /\ lpc = "rf_poll") =>
        \/ lpc' = "rf_poll"
        \/ lastPoll' = "data" /\ pollTimes' # pollTimes
        \/ ~LoopRuns(now, start) /\ ret' = [status |-> "returned", value |-> NoneText]

C15_RfPollErrorsContinue == []C15_RfPollErrorInv /\ [][C15_RfPollErrorStep]_vars

\* C15 witness: the re-authentication of the last poll before the deadline
\* raised, and the call has returned None at the deadline.
C15_Witness ==
    /\ is_rf
    /\ lpc = "done"
    /\ lastPoll = "auth raises"
    /\ pollTimes[2] - start = Timeout - PollInterval
    /\ now - start = Timeout
    /\ ret = [status |-> "returned", value |-> NoneText]

(***************************************************************************)
(* Properties of the payload encodings.                                    *)
(***************************************************************************)
LowerHex == {HexDigits[i] : i \in DOMAIN HexDigits}

Base64Chars == {Base64Alphabet[i] : i \in DOMAIN Base64Alphabet}

B64Value(c) == IF c = "=" THEN 0 ELSE (CHOOSE i \in 1..64 : Base64Alphabet[i] = c) - 1

\* The bytes a base64 text stands for (RFC 4648), four characters at a time.
RECURSIVE Base64Decode(_)
Base64Decode(text) ==
    IF Len(text) < 4 THEN <<>>
    ELSE LET a == B64Value(text[1])
             b == B64Value(text[2])
             c == B64Value(text[3])
             d == B64Value(text[4])
             three == <<a * 4 + b \div 16, (b % 16) * 16 + c \div 4, (c % 4) * 64 + d>>
         IN  (IF text[3] = "=" THEN SubSeq(three, 1, 1)
              ELSE IF text[4] = "=" THEN SubSeq(three, 1, 2)
              ELSE three) \o Base64Decode(SubSeq(text, 5, Len(text)))

\* A text is base64: groups of four characters of the alphabet, "=" only
\* as the last or the last two characters.
IsBase64(text) ==
    /\ Len(text) % 4 = 0
    /\ \A i \in DOMAIN text :
          \/ text[i] \in Base64Chars
          \/ text[i] = "=" /\ i >= Len(text) - 1 /\ text[Len(text)] = "="

\* A text is the lowercase hexadecimal text of the bytes, two digits a byte.
IsHexOf(text, bytes) ==
    /\ Len(text) = 2 * Len(bytes)
    /\ \A i \in DOMAIN text : text[i] \in LowerHex
    /\ \A i \in DOMAIN bytes :
          16 * HexValue(text[2 * i - 1]) + HexValue(text[2 * i]) = bytes[i]

\* C16: for non-empty captured data, what the RF branch returns is the
\* lowercase hexadecimal text of the bytes, two digits a byte, and what the
\* IR branch returns is the base64 text of the same bytes; the two texts of
\* the same data are never equal.
C16_PayloadEncoding ==
    (lpc = "done" /\ lastPoll = "data") =>
        /\ data # <<>>
        /\ is_rf => IsHexOf(ret.value, data)
        /\ ~is_rf =>
              /\ ret.value = Base64Encode(data)
              /\ IsBase64(ret.value)
              /\ Len(ret.value) = 4 * ((Len(data) + 2) \div 3)
              /\ Base64Decode(ret.value) = data
        /\ ret.value # (IF is_rf THEN IrPayload(data) ELSE RfPayload(data))

\* C16 witness: the IR branch has returned "JgA=" for the bytes 26 00.
C16_Witness ==
    /\ lpc = "done"
    /\ ~is_rf
    /\ data = <<38, 0>>
    /\ ret.value = <<"J", "g", "A", "=">>

(***************************************************************************)
(* Properties of the climate scaffold.                                     *)
(***************************************************************************)
\* floor((tempMax - tempMin) / precision) + 1, the precision in half degrees.
StepCount == (2 * (tempMax - tempMin)) \div precision + 1

\* The temperature leaves the matrix holds under an operation mode and a
\* fan mode.
TempLeaves(o, f) ==
    {p \in DOMAIN outputConfig.commands : Len(p) = 3 /\ p[1] = o /\ p[2] = f}

\* C17: for tempMin <= tempMax the temperature steps are tempMin,
\* tempMin + precision, ..., tempMax, floor((tempMax - tempMin) / precision)
\* + 1 of them; a whole step is keyed by its integer; and the scaffold
\* holds one leaf for every step under every selected pair of modes.
C17_TemperatureSteps ==
    (pc = "learn" /\ deviceType = "CLIMATE" /\ tempMin <= tempMax) =>
        /\ Len(temps) = StepCount
        /\ temps[1] = 2 * tempMin
        /\ temps[Len(temps)] = 2 * tempMax
        /\ \A i \in 2..Len(temps) : temps[i] - temps[i - 1] = precision
        /\ \A i \in DOMAIN temps :
              temps[i] % 2 = 0 => TempKey(temps[i]) \in {ToString(k) : k \in tempMin..tempMax}
        /\ \A o \in Range(operationModes), f \in Range(fanModes) :
              /\ Cardinality(TempLeaves(o, f)) = StepCount
              /\ TempLeaves(o, f) = {<<o, f, TempKey(temps[i])>> : i \in DOMAIN temps}

\* C17 witness: temperatures 1 to 3 in steps of 0.5 give five steps, and
\* the scaffold holds the leaf cool / auto / 2.5.
C17_Witness ==
    /\ pc = "learn"
    /\ tempMin = 1 /\ tempMax = 3 /\ precision = 1
    /\ Len(temps) = 5
    /\ <<"cool", "auto", "2.5">> \in DOMAIN outputConfig.commands
    /\ <<"cool", "auto", "3">> \in DOMAIN outputConfig.commands

(***************************************************************************)
(* Properties of the order of the slots.                                   *)
(***************************************************************************)
\* The run is in a slot: at its capture or at one of its prompts.
InSlot == pc \in {"capture", "failed", "confirm"}

\* The order the fan's slots are to be prompted in.
FanOrder ==
    <<"off", "on", "reverse", "level1", "level2", "level3", "level4", "level5", "level6">>
        \o timerModes

\* C18: a fan pass prompts 3 + 6 + |T| slots, one after the other in the
\* order off, on, reverse, level1..level6 and the selected timers, each as
\* a fresh slot and once; the counter shown with slot k is k, it grows by
\* one from slot to slot whatever the outcome, and it is never above the
\* total shown with it.
C18_FanInv ==
    deviceType = "FAN" =>
        /\ TotalCommands = 3 + 6 + Len(timerModes)
        /\ NumSlots = TotalCommands
        /\ slot <= TotalCommands
        /\ InSlot =>
              /\ slot \in 1..TotalCommands
              /\ command_count = slot
              /\ command_count <= TotalCommands
              /\ SlotAt(slot).leaf = <<FanOrder[slot]>>
              /\ SlotAt(slot).path = SlotAt(slot).leaf
              /\ Len(outcomes) = slot - 1
        /\ pc \in {"returned", "exit"} => Len(outcomes) = TotalCommands

C18_FanStep ==
    deviceType = "FAN" =>
        /\ slot' # slot =>
              /\ slot' = slot + 1
              /\ command_count' = slot'
              /\ frames' = <<Unbound>>
              /\ pc' = "capture"
        /\ command_count' # command_count => command_count' = command_count + 1

C18_FanSlotsAndCounter == []C18_FanInv /\ [][C18_FanStep]_vars

\* C18 witness: with the timers 1h and 4h selected the pass is at its
\* eleventh and last slot, the 4h timer, shown as 11 of 11, after a slot
\* that ended Aborted.
C18_Witness ==
    /\ deviceType = "FAN"
    /\ timerModes = <<"timer_1h", "timer_4h">>
    /\ pc = "capture"
    /\ slot = 11
    /\ command_count = 11
    /\ TotalCommands = 11
    /\ SlotAt(slot).leaf = <<"timer_4h">>
    /\ "Aborted" \in Range(outcomes)

\* The leaves of the sources of a commands tree.
SourceLeaves(c) == {p \in DOMAIN c : Len(p) = 2 /\ p[1] = "sources"}

\* C19: a media pass prompts the seven fixed commands in their declared
\* order and then one slot for every source, in the order of declaration;
\* when the slot of source S ends Saved the payload is in the leaf
\* commands.sources.S, and the leaf of every other source is as before.
C19_SourceOrder ==
    (deviceType = "MEDIA" /\ InSlot) =>
        SlotAt(slot).leaf =
            IF slot <= 7
            THEN <<(<<"off", "on", "previousChannel", "nextChannel", "volumeUp",
                      "volumeDown", "mute">>)[slot]>>
            ELSE <<"sources", sources[slot - 7]>>

C19_SourceStep ==
    (deviceType = "MEDIA" /\ slot > 7 /\ SlotEnds("Saved")) =>
        LET S == SlotAt(slot).leaf
        IN  /\ S \in DOMAIN outputConfig'.commands
            /\ outputConfig'.commands[S] = Payload(slot, Len(frames))
            /\ \A p \in SourceLeaves(outputConfig.commands) \ {S} :
                  /\ p \in DOMAIN outputConfig'.commands
                  /\ outputConfig'.commands[p] = outputConfig.commands[p]

C19_SourceOwnLeaf == []C19_SourceOrder /\ [][C19_SourceStep]_vars

\* C20: every slot a climate pass prompts after the off slot is a leaf of
\* the scaffold, of an operation mode and a fan mode the operator selected;
\* the off slot comes first.
C20_ClimateSlotsAreScaffoldLeaves ==
    (deviceType = "CLIMATE" /\ InSlot) =>
        IF slot = 1
        THEN SlotAt(slot).leaf = <<"off">>
        ELSE /\ SlotAt(slot).leaf[1] \in Range(operationModes)
             /\ SlotAt(slot).leaf[2] \in Range(fanModes)
             /\ SlotAt(slot).leaf \in DOMAIN Scaffold.commands

\* C21: the capture attempts of one slot are capped: there is a fixed number
\* the nesting of _learnCommand never reaches, whatever the operator answers.
\* Stated for the deepest nesting explored here; the code counts nothing, so
\* the same run refutes any other number.
C21_RetriesCapped == Len(frames) < MaxAttempts

\* An attempt begins: the run enters async_learn.
AttemptBegins == pc # "capture" /\ pc' = "capture"

\* C22: no attempt begins by itself.  The first attempt of a slot begins
\* when learn() enters the slot; every later one begins in the step of an
\* operator answer that asks for it (anything but 'n' at the retry prompt,
\* 'n' at the confirm prompt); and between the result of an attempt and the
\* next attempt there is exactly that one answer.
C22_AttemptInv ==
    /\ pc = "capture" => (frames # <<>> /\ Last(frames) = Unbound)
    /\ pc \in {"failed", "confirm"} => (frames # <<>> /\ Last(frames) # Unbound)

C22_AttemptStep ==
    /\ AttemptBegins =>
          \/ /\ pc \in {"learn", "slotdone"}
             /\ slot' = slot + 1
             /\ frames' = <<Unbound>>
          \/ /\ pc = "failed"
             /\ choice' # "n"
             /\ slot' = slot
             /\ frames' = Append(frames, Unbound)
          \/ /\ pc = "confirm"
             /\ choice' = "n"
             /\ slot' = slot
             /\ frames' = Append(frames, Unbound)
    /\ attempts' # attempts =>
          /\ pc = "capture"
          /\ attempts' = attempts + 1
          /\ pc' \in {"failed", "confirm", "raised"}
    /\ pc = "capture" => pc' # "capture" /\ slot' = slot /\ choice' = choice
    /\ pc \in {"failed", "confirm"} =>
          /\ pc' \in {"capture", "slotdone", "keyerror"}
          /\ choice' \in {Lower(a) : a \in Answers}
          /\ attempts' = attempts

C22_AttemptsFollowAnswers == []C22_AttemptInv /\ [][C22_AttemptStep]_vars

\* C22 witness: the third attempt of a slot is under way, after a failed
\* capture the operator asked to retry and a capture the operator asked to
\* learn again.
C22_Witness ==
    /\ pc = "capture"
    /\ Len(frames) = 3
    /\ frames[1] = None
    /\ frames[2] = Payload(slot, 2)
    /\ frames[3] = Unbound
    /\ choice = "n"

(***************************************************************************)
(* Properties of the adapter operations of one call of async_learn.        *)
(***************************************************************************)
\* The operations of the log with the given name.
OpsNamed(name) == {i \in DOMAIN ops : ops[i].op = name}

\* The frequency state of the call: Unset until the sweep has been started,
\* Sweeping while the sweep loop runs, Locked once check_frequency reported
\* a lock, TimedOut when the acquisition ended without one.
FrequencyState ==
    CASE locked -> "Locked"
      [] ~locked /\ OpsNamed("sweep_frequency") # {} /\ lpc = "sweeping" -> "Sweeping"
      [] ~locked /\ OpsNamed("sweep_frequency") # {} /\ lpc # "sweeping" -> "TimedOut"
      [] OTHER -> "Unset"

FrequencyRank(st) ==
    CASE st = "Unset" -> 0
      [] st = "Sweeping" -> 1
      [] st \in {"Locked", "TimedOut"} -> 2

\* C23: in one call the frequency state only moves forward, Unset to
\* Sweeping to Locked or TimedOut; the sweep is started at most once; no
\* lock poll is made after a lock or after the acquisition ended; a locked
\* frequency is never replaced.
C23_FrequencyInv ==
    /\ Cardinality(OpsNamed("sweep_frequency")) <= 1
    /\ locked => frequency \in DetectedFrequencies
    /\ FrequencyState # "Unset" => (is_rf /\ ~FrequencyGiven(argFrequency))

C23_FrequencyStep ==
    /\ FrequencyRank(FrequencyState') >= FrequencyRank(FrequencyState)
    /\ FrequencyState' # FrequencyState =>
          \/ FrequencyState = "Unset" /\ FrequencyState' \in {"Sweeping", "TimedOut"}
          \/ FrequencyState = "Sweeping" /\ FrequencyState' \in {"Locked", "TimedOut"}
    /\ lockPolls' # lockPolls =>
          /\ FrequencyState = "Sweeping"
          /\ Last(ops').op = "check_frequency"
    /\ locked => (locked' /\ frequency' = frequency)

C23_FrequencyMovesForward == []C23_FrequencyInv /\ [][C23_FrequencyStep]_vars

\* C23 witness: the third lock poll reported 315.0 MHz, the RF capture has
\* been started and the poll loop runs.
C23_Witness ==
    /\ locked
    /\ frequency = "315.0"
    /\ lockPolls = 3
    /\ lpc = "rf_poll"
    /\ FrequencyState = "Locked"

\* The call has gone past the best-effort cancel and the test of `frequency`,
\* and past the start of the sweep where one is made.
PastSweepStart == OpsNamed("cancel") # {} /\ lpc # "sweep_start"

\* The operations of the frequency acquisition and of the RF capture follow
\* from whether the call has a frequency, `has` telling what having one is.
SweepRule(has) ==
    /\ OpsNamed("sweep_frequency") # {} => (is_rf /\ ~has)
    /\ (is_rf /\ ~has /\ PastSweepStart) => OpsNamed("sweep_frequency") # {}
    /\ has =>
          /\ OpsNamed("sweep_frequency") = {}
          /\ OpsNamed("check_frequency") = {}
          /\ lockPolls = 0
          /\ \A i \in OpsNamed("find_rf_packet") : ops[i].arg = argFrequency
    /\ ~is_rf =>
          /\ OpsNamed("sweep_frequency") = {}
          /\ OpsNamed("cancel") = {}
          /\ OpsNamed("check_frequency") = {}
          /\ OpsNamed("find_rf_packet") = {}
          /\ lockPolls = 0

\* C24: a sweep is started if and only if the mode is RF and no frequency
\* was supplied to the call; with a supplied frequency no sweep is started,
\* no lock poll is made and find_rf_packet gets exactly the supplied value;
\* in IR mode no sweep, cancel, lock poll or find_rf_packet is issued.
C24_SweepIffNoFrequency == SweepRule(argFrequency # None)

\* What the code does instead: the same with "supplied" read as Python
\* reads `if frequency:`, which takes the supplied value 0.0 for none.
SweepFollowsTruthiness == SweepRule(FrequencyGiven(argFrequency))

\* The names of the operations of the log, in order.
OpNames == [i \in DOMAIN ops |-> ops[i].op]

\* The operations of an RF call that runs to the poll loop, a turn of each
\* loop standing for all of them; `has` tells whether the call has a
\* frequency to begin with.
RfOperations(has) ==
    <<"auth", "cancel">>
        \o (IF has THEN <<>> ELSE <<"sweep_frequency", "check_frequency">>)
        \o <<"auth", "find_rf_packet", "auth", "check_data">>

\* The order of the operations of an RF call.
RfOrder(has) ==
    is_rf =>
        /\ IsPrefix(OpNames, RfOperations(has))
        /\ \A i \in 1..(Len(ops) - 1) : ops[i].ok \/ ops[i].op = "cancel"
        /\ \A i \in OpsNamed("find_rf_packet") :
              /\ ops[i].arg = frequency
              /\ frequency # None
              /\ IF has THEN frequency = argFrequency
                 ELSE locked /\ frequency \in DetectedFrequencies
        /\ OpsNamed("check_data") # {} =>
              \E i \in OpsNamed("find_rf_packet") : ops[i].ok
        /\ (\E i \in DOMAIN ops :
                /\ ~ops[i].ok
                /\ i = 1 \/ ops[i].op \in {"sweep_frequency", "check_frequency"})
              => OpsNamed("find_rf_packet") = {}

\* The log grows at its end: a step keeps what was issued before the turn
\* of the loop under way.
OpsStep ==
    ops' # ops =>
        \E k \in 0..Len(ops) :
            /\ k >= Len(ops) - 2
            /\ SubSeq(ops', 1, k) = SubSeq(ops, 1, k)
            /\ Len(ops') > k

\* A captured-data poll of the RF loop comes directly after an auth() that
\* returned; a turn whose auth() raised polls nothing.
RfPollStep ==
    (is_rf /\ pollTimes' # pollTimes) =>
        \/ /\ lastPoll' = "auth raises"
           /\ Last(ops') = Op("auth", None, FALSE)
        \/ /\ lastPoll' # "auth raises"
           /\ Len(ops') >= 2
           /\ Last(ops').op = "check_data"
           /\ ops'[Len(ops') - 1] = Op("auth", None, TRUE)

\* C25: in an RF call the operations are, in this order: auth, the
\* best-effort cancel, without a supplied frequency the start of the sweep
\* and the lock polls, auth, find_rf_packet, and poll turns of an auth
\* directly followed by check_data.  find_rf_packet is called only with a
\* frequency at hand, the supplied one or the one the locking poll
\* reported, and with that value; check_data is not called unless
\* find_rf_packet returned; after a failed first auth, sweep start or lock
\* poll find_rf_packet is not called.
C25_RfOperationOrder ==
    /\ [](RfOrder(argFrequency # None))
    /\ [][OpsStep /\ RfPollStep]_vars

\* What the code does instead: the same order with "supplied" read as
\* Python reads `if frequency:`.
RfOrderByTruthiness ==
    /\ [](RfOrder(FrequencyGiven(argFrequency)))
    /\ [][OpsStep /\ RfPollStep]_vars

\* The operations of an IR call that runs to the poll loop, a turn of the
\* loop standing for all of them.
IrOperations == <<"auth", "enter_learning", "check_data">>

\* The number of captured-data polls an IR call has made: one a second
\* since the loop began.
IrPolls == IF lastPoll = "none" THEN 0 ELSE (pollTimes[2] - start) \div OneSecond

\* C26: in an IR call the operations are, in this order: auth,
\* enter_learning, and captured-data polls at least one second apart, 20
\* at most; a call whose auth fails returns None with neither
\* enter_learning nor a poll; no poll is made before enter_learning.
C26_IrOrderInv ==
    ~is_rf =>
        /\ IsPrefix(OpNames, IrOperations)
        /\ \A i \in 1..(Len(ops) - 1) : ops[i].ok
        /\ (ops # <<>> /\ ~ops[1].ok) =>
              /\ ops = <<Op("auth", None, FALSE)>>
              /\ lastPoll = "none"
              /\ ret = [status |-> "returned", value |-> NoneText]
        /\ lastPoll # "none" =>
              /\ OpsNamed("enter_learning") # {}
              /\ OpsNamed("check_data") # {}
        /\ IrPolls \in 0..20
        /\ IrPolls >= 2 => pollTimes[2] - pollTimes[1] >= OneSecond

C26_IrOrderStep ==
    (~is_rf /\ pollTimes' # pollTimes) =>
        /\ lpc = "ir_poll"
        /\ ops'[Len(ops') - 1] = Op("enter_learning", None, TRUE)
        /\ Last(ops').op = "check_data"
        /\ pollTimes'[2] >= start + OneSecond
        /\ lastPoll # "none" => pollTimes'[2] >= pollTimes[2] + OneSecond
        /\ IrPolls' = IrPolls + 1

C26_IrOperationOrder == []C26_IrOrderInv /\ [][C26_IrOrderStep /\ OpsStep]_vars

\* C26 witness: the twentieth poll of an IR call has been made, it found
\* nothing, and the call has not returned yet.
C26_Witness ==
    /\ ~is_rf
    /\ OpNames = IrOperations
    /\ IrPolls = 20
    /\ lastPoll = "empty"
    /\ lpc = "ir_poll"

\* The best-effort cancel of the call raised.
CancelFailed == \E i \in OpsNamed("cancel") : ~ops[i].ok

\* When the cancel ended: its sleep of one second is skipped when it raised.
CancelEnd == entered + (IF CancelFailed THEN 0 ELSE OneSecond)

\* C27: a cancel that raises does not end the call.  Whichever way the
\* cancel ended, the call goes on to the same place with the same
\* frequency, decided by `frequency` alone, and nothing but the clock and
\* the log tells the two apart; what follows is timed from the end of the
\* cancel, so that the later operations and the result are the same.
C27_CancelInv ==
    (is_rf /\ OpsNamed("cancel") # {}) =>
        /\ Len(ops) = 2 => (ret.status = "running" /\ now = CancelEnd)
        /\ lpc = "sweeping" => (start = CancelEnd /\ now = start + lockPolls * OneSecond)
        /\ (lpc = "rf_start" /\ FrequencyGiven(argFrequency)) => now = CancelEnd
        /\ (lpc = "rf_start" /\ locked) =>
              now = CancelEnd + lockPolls * OneSecond + Settle

C27_CancelStep ==
    lpc = "rf_cancel" =>
        /\ lpc' = IF FrequencyGiven(frequency) THEN "rf_start" ELSE "sweep_start"
        /\ ret' = ret
        /\ frequency' = frequency
        /\ locked' = locked
        /\ start' = start
        /\ UNCHANGED pollVars
        /\ now' = CancelEnd'
        /\ Len(ops') = 2

C27_CancelFailureIsNotFatal == []C27_CancelInv /\ [][C27_CancelStep]_vars

\* C27 witness: the cancel raised, and the call went on through the sweep,
\* a lock and the RF capture to return a payload.
C27_Witness ==
    /\ CancelFailed
    /\ locked
    /\ ret.status = "returned"
    /\ ret.value = RfPayload(<<38, 0>>)

\* A new call of async_learn is made for the slot.
NewCall == lpc = "done" /\ lpc' # "done"

\* C28: a frequency the sweep detected lives in the call that detected it:
\* it is never stored on the device, so the next call for the slot is made
\* with the frequency the operator supplied before the pass, or with none;
\* in an RF pass without one every call, a retry included, starts its own
\* sweep and hands find_rf_packet the frequency it locked itself; a call
\* that ends without a lock returns None and leaves the next call free to
\* lock.
C28_DetectedInv ==
    /\ deviceFrequency = argFrequency
    /\ locked => (deviceFrequency = None \/ deviceFrequency = "0.0")
    /\ (is_rf /\ argFrequency = None /\ PastSweepStart) =>
          /\ OpsNamed("sweep_frequency") # {}
          /\ \A i \in OpsNamed("find_rf_packet") :
                /\ locked
                /\ OpsNamed("check_frequency") # {}
                /\ ops[i].arg = frequency
    /\ (FrequencyState = "TimedOut" /\ lpc = "done") =>
          ret = [status |-> "returned", value |-> NoneText]

C28_DetectedStep ==
    /\ deviceFrequency' = deviceFrequency
    /\ NewCall =>
          /\ argFrequency' = argFrequency
          /\ frequency' = argFrequency'
          /\ ~locked'
          /\ lockPolls' = 0
          /\ ops' = <<>>
          /\ FrequencyState' = "Unset"
          /\ Len(frames') = Len(frames) + 1

C28_DetectedFrequencyIsLocal == []C28_DetectedInv /\ [][C28_DetectedStep]_vars

\* C28 witness: no frequency was supplied and the first call for the slot
\* returned None; the retry has started a sweep of its own, locked
\* 315.0 MHz and started the RF capture with it.
C28_Witness ==
    /\ is_rf
    /\ argFrequency = None
    /\ deviceFrequency = None
    /\ frames = <<None, Unbound>>
    /\ OpsNamed("sweep_frequency") # {}
    /\ locked
    /\ frequency = "315.0"
    /\ \E i \in OpsNamed("find_rf_packet") : ops[i].arg = "315.0" /\ ops[i].ok
    /\ lpc = "rf_poll"

\* The two fields of a config the scaffold sets once.
FixedFields(config) ==
    <<config.supportedController, config.commandsEncoding>>

\* C29: from the scaffold to the return of learn() and to the saved file,
\* supportedController is 'Broadlink' and commandsEncoding is 'Base64', for
\* every device type and for IR and RF alike; no step changes them.
C29_ConstantsInv ==
    /\ FixedFields(outputConfig) = <<"Broadlink", "Base64">>
    /\ \A i \in DOMAIN saved : FixedFields(saved[i]) = <<"Broadlink", "Base64">>

C29_ConstantsStep == FixedFields(outputConfig') = FixedFields(outputConfig)

C29_ConstantFields == []C29_ConstantsInv /\ [][C29_ConstantsStep]_vars

\* C29 witness: an RF pass of a fan has stored a payload, has returned and
\* has been saved.
C29_Witness ==
    /\ is_rf
    /\ deviceType = "FAN"
    /\ pc = "exit"
    /\ writes # <<>>
    /\ saved = <<outputConfig>>
    /\ FixedFields(saved[1]) = <<"Broadlink", "Base64">>

\* learn() has returned to main.
Returned == pc \in {"returned", "exit"}

\* What _learnCommand and learn() make of a skipped slot under the strict
\* policy: the slot returns True as a saved one does, the step writes
\* nothing, learn() goes on to the next slot or, after the last one,
\* returns the matrix; learn() returns None exactly after an Aborted slot,
\* a returned matrix has had every slot visited, and main saves it.
SkipIsNotAbortInv ==
    Strict(deviceType) =>
        /\ Returned => (learnReturn = None <=> "Aborted" \in Range(outcomes))
        /\ (Returned /\ learnReturn # None) =>
              /\ Len(outcomes) = NumSlots
              /\ Range(outcomes) \subseteq {"Saved", "Skipped"}
        /\ pc = "exit" => saved = IF learnReturn = None THEN <<>> ELSE <<outputConfig>>

SkipIsNotAbortStep ==
    Strict(deviceType) =>
        /\ SlotEnds("Skipped") => (result' = TRUE /\ outputConfig' = outputConfig)
        /\ SlotEnds("Saved") => result' = TRUE
        /\ (pc = "slotdone" /\ Last(outcomes) = "Skipped") =>
              IF slot < NumSlots
              THEN pc' = "capture" /\ slot' = slot + 1
              ELSE pc' = "returned" /\ learnReturn' # None

SkippedPassReturns == []SkipIsNotAbortInv /\ [][SkipIsNotAbortStep]_vars

\* The leaf of every skipped slot holds the empty sentinel.
SkippedLeavesEmpty ==
    \A i \in DOMAIN outcomes :
        outcomes[i] = "Skipped" =>
            /\ SlotAt(i).leaf \in DOMAIN outputConfig.commands
            /\ outputConfig.commands[SlotAt(i).leaf] = Sentinel(deviceType)

\* C30: under the strict policy a skipped slot counts as a saved one: a
\* pass with skipped slots, however many, visits every slot, returns the
\* matrix and has it saved by main, with the leaf of every skipped slot at
\* the empty sentinel; only an Aborted slot makes learn() return None.
C30_SkippedPassIsSaved ==
    /\ SkipIsNotAbortInv
    /\ (Strict(deviceType) /\ Returned /\ learnReturn # None) => SkippedLeavesEmpty

(***************************************************************************)
(* Termination.  The program is one thread: whatever step is possible is   *)
(* taken, the operator answers every prompt, and Recurse lets an operator  *)
(* ask for another attempt finitely often.                                 *)
(***************************************************************************)
SpecFair == Spec /\ WF_vars(Next)

SpecLearnFair == SpecLearn /\ WF_vars(NextLearn)

\* The pass has ended as learn() ends it: with the matrix, or, under the
\* strict policy, with None after the first slot that ended Aborted.
LearnReturned ==
    /\ Returned
    /\ \/ /\ learnReturn # None
          /\ Len(outcomes) = NumSlots
       \/ /\ learnReturn = None
          /\ Strict(deviceType)
          /\ Last(outcomes) = "Aborted"
          /\ \A i \in 1..(Len(outcomes) - 1) : outcomes[i] # "Aborted"

\* C31: with finitely many retries and re-learns for every slot, learn()
\* eventually returns, for every device type: with the matrix, or under
\* the strict policy with None at the first Aborted slot.
C31_LearnReturns == <>LearnReturned

\* What the code does instead: the pass always ends, by a return of learn()
\* as above or by an exception nothing catches.
PassEnds == <>(LearnReturned \/ pc \in {"raised", "keyerror"})

\* Every call of async_learn ends, by a return or by an exception.
AttemptEnds == <>(lpc = "done")

====
